---- MODULE Spec2Model ----
(***************************************************************************)
(* Model of the AquaSpot ingestion pipeline (src/aquaspot/ingestion.py):   *)
(* the two-provider imagery search, the single-item fetcher and the        *)
(* retrying multi-scene download.                                          *)
(*                                                                         *)
(* Time is counted in whole hours relative to the target date, which the   *)
(* callers build at midnight (strptime '%Y-%m-%d'), so an item h hours     *)
(* from the target lies on calendar day h \div 24 relative to it.          *)
(***************************************************************************)
EXTENDS Integers, Sequences, FiniteSets, TLC

VARIABLES
    pc,            \* position of download_sentinel_tiles: "idle", "search", "download"
    runs,          \* number of calls of download_sentinel_tiles made so far
    max_retries,   \* argument of the current call
    max_cloud_cover, \* argument of the current call
    attempt,       \* loop variable of the retry loop
    items,         \* result of the search of the current attempt
    idx,           \* loop variable i of the download loop
    downloaded_files, \* the list the call accumulates and returns
    result,        \* outcome of the last call: "none", "returned" or the error raised
    disk,          \* files of the date directory: file name -> [owner, complete]
    sleeps,        \* time.sleep calls of the current call, as [after attempt, seconds]
    attemptLog,    \* per finished attempt of the current call: the files it obtained
    fetched,       \* per fetch of the current attempt: the path it returned, or NoFile
    lastFetch,     \* what the last call of _download_sentinel2_item did
    lastSearch,    \* what the last call of _search_sentinel2_imagery did
    date_dir,      \* whether the date directory exists
    fetches,       \* fetches made so far in the fetcher's own specification
    searches,      \* searches made by the current call of download_sentinel_tiles
    found_any,     \* whether a search of the current call returned an item
    lastChange,    \* what the last call of detect_change was given and did
    lastRank,      \* what the last call of rank_candidates was given and did
    lastCluster,   \* what the last call of cluster_anomalies was given and did
    lastNdwi,      \* what the last call of calc_ndwi was given and did
    clock,         \* the web server's wall clock, in whole seconds
    request,       \* per web analysis run: where it is and what it holds
    folders,       \* results/analysis_<timestamp>: the runs that use it, its images
    archives,      \* results/aquaspot_results_<timestamp>.zip: the runs that wrote it
    lastIngest,    \* what the last run of the ingest command did
    lastFromFile,  \* what the last call of calculate_ndwi_from_file did
    environ,       \* os.environ: the settings' environment variables
    captured,      \* field defaults evaluated when the config module was imported
    config         \* the AquaSpotConfig constructed last

vars == << pc, runs, max_retries, max_cloud_cover, attempt, items, idx,
           downloaded_files, result, disk, sleeps, attemptLog, fetched,
           lastFetch, lastSearch, date_dir, fetches, searches, found_any,
           lastChange, lastRank, lastCluster, lastNdwi,
           clock, request, folders, archives, lastIngest, lastFromFile,
           environ, captured, config >>

\* The state of download_sentinel_tiles, of the search and of the fetcher.
ingestVars == << pc, runs, max_retries, max_cloud_cover, attempt, items, idx,
                 downloaded_files, result, disk, sleeps, attemptLog, fetched,
                 lastFetch, lastSearch, date_dir, fetches, searches,
                 found_any >>

\* The state of the web application, of the command line and of the
\* configuration, which the library functions never touch.
webVars == << clock, request, folders, archives >>
cliVars == << lastIngest, lastFromFile >>
configVars == << environ, captured, config >>
appVars == << webVars, cliVars, configVars >>

\* The state of the raster analysis functions, which ingestion never touches.
analysisVars == << lastChange, lastRank, lastCluster, lastNdwi >>

-----------------------------------------------------------------------------
(* Bounds of the model *)

MaxItems == 3          \* longest catalog response in the search specification
MaxMainItems == 2      \* longest catalog response in the download specification
MaxRetriesBound == 2   \* largest max_retries a call is made with
MaxRuns == 2           \* calls of download_sentinel_tiles on the same directory
MaxFetches == 2        \* fetches into one directory in the fetcher's specification

(* Program constants *)

DownloadLimit == 3     \* items[:3]
ParseFallbackDays == 999  \* date_diff's value for an item it cannot date

Abs(x) == IF x < 0 THEN -x ELSE x

RECURSIVE Pow2(_)
Pow2(n) == IF n = 0 THEN 1 ELSE 2 * Pow2(n - 1)

Min(a, b) == IF a < b THEN a ELSE b

-----------------------------------------------------------------------------
(* STAC items *)

\* item.datetime as the code reads it: an ISO string without offset ("naive"),
\* an ISO string with 'Z' or an offset ("aware"), or anything
\* datetime.fromisoformat(item.datetime.replace(...)) raises on ("bad": None,
\* a non-string, an unparseable string). h is the distance to the target
\* date in hours.
Naive(h) == [kind |-> "naive", h |-> h]
Aware(h) == [kind |-> "aware", h |-> h]
BadTs == [kind |-> "bad", h |-> 0]

\* item.properties['eo:cloud_cover']: absent, a number, or a value whose
\* comparison with a float raises (None, a string; or item.properties itself
\* is unreadable).
CloudMissing == [kind |-> "missing", v |-> 0]
CloudUnreadable == [kind |-> "unreadable", v |-> 0]
Cloud(v) == [kind |-> "num", v |-> v]

SceneIds == {"P1", "P2", "P3", "P4", "P5", "P6"}

Scene(id) ==
    CASE id = "P1" -> [id |-> id, ts |-> Naive(-1),  cloud |-> Cloud(10),
                       assets |-> {"visual", "B04"}]
      [] id = "P2" -> [id |-> id, ts |-> Naive(23),  cloud |-> CloudMissing,
                       assets |-> {"visual"}]
      [] id = "P3" -> [id |-> id, ts |-> Naive(-30), cloud |-> Cloud(30),
                       assets |-> {"B04", "red"}]
      [] id = "P4" -> [id |-> id, ts |-> Naive(2),   cloud |-> CloudUnreadable,
                       assets |-> {"visual"}]
      [] id = "P5" -> [id |-> id, ts |-> BadTs,      cloud |-> Cloud(20),
                       assets |-> {"overview"}]
      [] id = "P6" -> [id |-> id, ts |-> Aware(5),   cloud |-> Cloud(0),
                       assets |-> {"B03", "B08"}]

\* Sequences of distinct scenes of length at most n drawn from ids.
DistinctSeqs(ids, n) ==
    { s \in UNION { [1..k -> ids] : k \in 0..n } :
        \A i, j \in 1..Len(s) : i # j => s[i] # s[j] }

\* What a catalog query does: it raises, or it yields a list of items.
Raised == [ok |-> FALSE, items |-> << >>]
Returned(s) == [ok |-> TRUE, items |-> [i \in 1..Len(s) |-> Scene(s[i])]]

Responses(ids, n) == {Raised} \cup { Returned(s) : s \in DistinctSeqs(ids, n) }

-----------------------------------------------------------------------------
(* _search_sentinel2_imagery *)

\* A sort key: a finite number, or float('inf').
Finite(v) == [inf |-> FALSE, v |-> v]
Inf == [inf |-> TRUE, v |-> 0]
KeyLess(a, b) == ~a.inf /\ (b.inf \/ a.v < b.v)

\* date_diff of the primary path. The target date is naive (the caller
\* compared it with datetime.now()), so subtracting it from an aware
\* datetime raises TypeError, which the bare except turns into 999 like any
\* parsing error. timedelta.days is the floor of the difference in days.
date_diff(item) ==
    IF item.ts.kind = "naive"
    THEN Finite(Abs(item.ts.h \div 24))
    ELSE Finite(ParseFallbackDays)

\* get_date_diff of the secondary path: the absolute difference as a float
\* number of days; kept here in hours (24 times the value, same order).
get_date_diff(item) ==
    IF item.ts.kind = "naive"
    THEN Finite(Abs(item.ts.h))
    ELSE Inf

\* sorted(seq, key=...): the stable sort, given the keys of the elements.
SortedByKeys(seq, keys) ==
    LET n == Len(seq)
        Before(j, i) == KeyLess(keys[j], keys[i])
                        \/ (~KeyLess(keys[i], keys[j]) /\ j < i)
        Rank(i) == 1 + Cardinality({ j \in 1..n : j # i /\ Before(j, i) })
    IN  [r \in 1..n |-> seq[CHOOSE i \in 1..n : Rank(i) = r]]

SortPrimary(seq) == SortedByKeys(seq, [i \in 1..Len(seq) |-> date_diff(seq[i])])
SortSecondary(seq) == SortedByKeys(seq, [i \in 1..Len(seq) |-> get_date_diff(seq[i])])

\* The filter below with a missing cloud cover read as 100 instead of 0.
CloudKeepsDefault100(item, maxcc) ==
    CASE item.cloud.kind = "missing" -> 100 <= maxcc
      [] item.cloud.kind = "unreadable" -> TRUE
      [] OTHER -> item.cloud.v <= maxcc

\* The client-side cloud-cover filter of the secondary path:
\* cloud_cover = item.properties.get('eo:cloud_cover', 0), kept when
\* cloud_cover <= max_cloud_cover, and kept when the comparison raises.
CloudKeeps(item, maxcc) ==
    CASE item.cloud.kind = "missing" -> 0 <= maxcc
      [] item.cloud.kind = "unreadable" -> TRUE
      [] OTHER -> item.cloud.v <= maxcc

FilterCloud(seq, maxcc) == SelectSeq(seq, LAMBDA it : CloudKeeps(it, maxcc))

\* The test below without the emptiness check: any answer ends the search.
PrimaryDecidesWhenOk(primary) == primary.ok

\* Whether the primary's answer ends the search (if items: return sorted(...)).
PrimaryDecides(primary) == primary.ok /\ primary.items # << >>

\* The value the search returns, given what the two providers do. The
\* secondary is asked only when the primary path did not return.
SearchResult(primary, secondary, maxcc) ==
    IF PrimaryDecides(primary)
    THEN SortPrimary(primary.items)
    ELSE IF secondary.ok
         THEN SortSecondary(FilterCloud(secondary.items, maxcc))
         ELSE << >>

NotAsked == [ok |-> FALSE, items |-> << >>]

\* The record of one search call.
SearchCall(primary, secondary, maxcc) ==
    [called |-> TRUE,
     maxcc |-> maxcc,
     primary |-> primary,
     secondaryQueried |-> ~PrimaryDecides(primary),
     secondary |-> IF PrimaryDecides(primary) THEN NotAsked ELSE secondary,
     result |-> SearchResult(primary, secondary, maxcc)]

NoSearch ==
    [called |-> FALSE, maxcc |-> 0, primary |-> NotAsked,
     secondaryQueried |-> FALSE, secondary |-> NotAsked, result |-> << >>]

\* The provider behaviours a search can meet: what the secondary would do is
\* drawn only when it is asked.
SearchCalls(ids, n, maxcc) ==
    { SearchCall(p, NotAsked, maxcc) :
        p \in { r \in Responses(ids, n) : PrimaryDecides(r) } }
    \cup
    { SearchCall(p, s, maxcc) :
        p \in { r \in Responses(ids, n) : ~PrimaryDecides(r) },
        s \in Responses(ids, n) }

-----------------------------------------------------------------------------
(* _download_sentinel2_item *)

\* The list below with the bands moved to the front.
PossibleAssetsBandsFirst == << "B04", "red", "visual", "rendered_preview", "overview" >>

\* possible_assets, in the order the loop tries them.
PossibleAssets == << "visual", "rendered_preview", "overview", "B04", "red" >>

NoAsset == "none"

\* for key in possible_assets: if key in item.assets: ...; break
SelectAsset(assets) ==
    LET hits == { k \in 1..Len(PossibleAssets) : PossibleAssets[k] \in assets }
    IN  IF hits = {} THEN NoAsset
        ELSE PossibleAssets[CHOOSE k \in hits : \A m \in hits : k <= m]

\* item_date of the file name: strftime('%Y%m%d') of the parsed timestamp
\* (aware or naive), or "unknown_date" when parsing raises.
ItemDate(ts) ==
    IF ts.kind = "bad"
    THEN [known |-> FALSE, day |-> 0]
    ELSE [known |-> TRUE, day |-> ts.h \div 24]

\* f"sentinel2_{item_date}_{index:02d}_{asset_key}.tif" in the date directory.
FileName(item, index, key) ==
    [date |-> ItemDate(item.ts), index |-> index, asset |-> key]

NoFile == [date |-> [known |-> FALSE, day |-> 0], index |-> -1, asset |-> NoAsset]

\* What the network and the file system do to a download that is started:
\*   "ok"          the body arrives and is written in full
\*   "http_error"  requests.get or raise_for_status raises (error, timeout)
\*   "open_error"  open(output_path, 'wb') raises: no file is created
\*   "interrupted" the file is created, then iter_content or write raises
Outcomes == {"ok", "http_error", "open_error", "interrupted"}

WriteFile(d, f, entry) ==
    [n \in DOMAIN d \cup {f} |-> IF n = f THEN entry ELSE d[n]]

\* Whether the existing file at the target name ends the fetch
\* (if output_path.exists(): return output_path).
SkipsExisting(d, f) == f \in DOMAIN d

\* The body of the try block: the path it returns, whether it raised, whether
\* it issued the download request, and the directory afterwards.
FetchBody(item, index, d, outcome) ==
    LET key == SelectAsset(item.assets)
        f == FileName(item, index, key)
    IN  IF key = NoAsset
        THEN [path |-> NoFile, raised |-> FALSE, requested |-> FALSE, disk |-> d]
        ELSE IF SkipsExisting(d, f)
        THEN [path |-> f, raised |-> FALSE, requested |-> FALSE, disk |-> d]
        ELSE CASE outcome = "ok" ->
                    [path |-> f, raised |-> FALSE, requested |-> TRUE,
                     disk |-> WriteFile(d, f, [owner |-> item.id, complete |-> TRUE])]
               [] outcome = "interrupted" ->
                    [path |-> NoFile, raised |-> TRUE, requested |-> TRUE,
                     disk |-> WriteFile(d, f, [owner |-> item.id, complete |-> FALSE])]
               [] OTHER ->
                    [path |-> NoFile, raised |-> TRUE, requested |-> TRUE, disk |-> d]

\* The handler below left out: the exception leaves the function.
CatchAllPropagates(r) == r

\* except Exception: log and return None.
CatchAll(r) == [r EXCEPT !.raised = FALSE, !.path = NoFile]

\* One call of _download_sentinel2_item.
Fetch(item, index, d, outcome) ==
    LET b == FetchBody(item, index, d, outcome)
    IN  IF b.raised THEN CatchAll(b) ELSE b

\* The files of directory d that hold a finished download of this scene's
\* asset.
FinishedFiles(d, id, key) ==
    { f \in DOMAIN d : d[f].owner = id /\ d[f].complete /\ f.asset = key }

\* The record of one fetch call, with what was on disk before it.
FetchCall(item, index, d, outcome) ==
    LET r == Fetch(item, index, d, outcome)
        key == SelectAsset(item.assets)
        f == FileName(item, index, key)
        prior == FinishedFiles(d, item.id, key)
    IN  [called |-> TRUE,
         scene |-> item.id,
         offered |-> item.assets,
         index |-> index,
         asset |-> key,
         outcome |-> IF r.requested THEN outcome ELSE "not_requested",
         path |-> r.path,
         raised |-> r.raised,
         requested |-> r.requested,
         existed |-> key # NoAsset /\ f \in DOMAIN d,
         prior |-> prior # {},
         priorReturned |-> r.path \in prior,
         priorKept |-> \A g \in prior : g \in DOMAIN r.disk /\ r.disk[g] = d[g]]

NoFetch ==
    [called |-> FALSE, scene |-> "", offered |-> {}, index |-> 0, asset |-> NoAsset,
     outcome |-> "not_requested", path |-> NoFile, raised |-> FALSE,
     requested |-> FALSE, existed |-> FALSE,
     prior |-> FALSE, priorReturned |-> FALSE, priorKept |-> TRUE]

EmptyDisk == [n \in {} |-> [owner |-> "", complete |-> FALSE]]

-----------------------------------------------------------------------------
(* download_sentinel_tiles *)

\* The scenes the catalogs of the download specification can answer with.
MainSceneIds == {"P2", "P4", "P6"}

\* max_cloud_cover is a percentage (0-100); 20 is the default.
CloudCeilings == {0, 20}
MainCloudCeilings == {20}

\* The except handler of the retry loop: wait 2 ** attempt seconds and go
\* on while attempts are left, raise ConnectionError after the last one.
ExceptHandler(a, mr) == [retry |-> a < mr - 1, wait |-> Pow2(a)]

\* The test below left out: the attempt returns whatever it has.
AttemptReturnsAlways(files) == TRUE

\* if downloaded_files: return downloaded_files
AttemptReturns(files) == files # << >>

\* The download loop after a fetch of item i of n: the next i.
NextIndex(i, n, r) == i + 1

\* Every item taken, however many there are.
SelectedAll(its) == Len(its)

\* items[:3]
Selected(its) == Min(DownloadLimit, Len(its))

\* The directories made before validation as well as after it.
MakesDirsAlways(valid) == TRUE

\* out_dir.mkdir / date_dir.mkdir: reached only by a call that passed the two
\* validations above them.
MakesDirs(valid) == valid

-----------------------------------------------------------------------------
\* Rasters.  A raster is its shape and its pixels; NDWI values are counted
\* in tenths (1 is 0.1), so that the test's 0.1, 0.4 and 0.2 are 1, 4 and 2.

MaxThreshold == 2
MaxMinChangeArea == 2

\* min_change_area when the caller gives none.
DefaultMinChangeArea == 10

NdwiLevels == {0, 1, 4}
ChangeShapes == { <<1, 1>>, <<1, 2>>, <<2, 1>>, <<2, 2>> }

Cells(shape) == (1..shape[1]) \X (1..shape[2])

Rasters(shapes, levels) ==
    UNION { [shape : {sh}, at : [Cells(sh) -> levels]] : sh \in shapes }

Constant(shape, v) == [shape |-> shape, at |-> [p \in Cells(shape) |-> v]]

MaxOf(S) == CHOOSE x \in S : \A y \in S : y <= x
MinOf(S) == CHOOSE x \in S : \A y \in S : x <= y

\* np.sum of a boolean raster.
Sum(bools) == Cardinality({p \in DOMAIN bools : bools[p]})

\* numpy's rule for an elementwise operation on two shapes: a dimension of
\* one is stretched to the other's, two equal dimensions stay, anything else
\* is refused.
Broadcastable(s, t) == \A i \in 1..2 : s[i] = t[i] \/ s[i] = 1 \/ t[i] = 1

BroadcastShape(s, t) ==
    << IF s[1] = 1 THEN t[1] ELSE s[1], IF s[2] = 1 THEN t[2] ELSE s[2] >>

\* The pixel of raster a that numpy pairs with cell p of the result.
Stretched(a, p) ==
    a.at[<< IF a.shape[1] = 1 THEN 1 ELSE p[1],
            IF a.shape[2] = 1 THEN 1 ELSE p[2] >>]

NoRaster == [shape |-> <<0, 0>>, at |-> << >>]

\* current_ndwi - baseline_ndwi as numpy computes it.
ndwi_diff(current, baseline) ==
    IF ~Broadcastable(current.shape, baseline.shape)
    THEN NoRaster
    ELSE LET sh == BroadcastShape(current.shape, baseline.shape)
         IN  [shape |-> sh,
              at |-> [p \in Cells(sh) |->
                         Stretched(current, p) - Stretched(baseline, p)]]

\* The two rasters taken as they come, whatever their shapes.
ShapeMismatchIgnored(baseline, current) == FALSE

\* if baseline_ndwi.shape != current_ndwi.shape
ShapeMismatch(baseline, current) == baseline.shape # current.shape

\* New water from the threshold itself upwards.
PositiveChangeFromThreshold(d, change_threshold) == d >= change_threshold

\* ndwi_diff > change_threshold
PositiveChange(d, change_threshold) == d > change_threshold

\* Lost water from minus the threshold itself downwards.
NegativeChangeFromThreshold(d, change_threshold) == d <= -change_threshold

\* ndwi_diff < -change_threshold
NegativeChange(d, change_threshold) == d < -change_threshold

NoStats ==
    [total_changed_pixels |-> -1, new_water_pixels |-> -1,
     lost_water_pixels |-> -1, max_positive_change |-> 0,
     max_negative_change |-> 0]

ChangeRaised(kind) ==
    [raised |-> kind, change_mask |-> NoRaster, positive_change |-> NoRaster,
     negative_change |-> NoRaster, stats |-> NoStats]

\* detect_change.  min_change_area is accepted and never read.  mean_change
\* and std_change are real-valued summaries of ndwi_diff and are left out.
detect_change(baseline, current, change_threshold, min_change_area) ==
    IF ShapeMismatch(baseline, current)
    THEN ChangeRaised("ValueError")
    ELSE LET diff == ndwi_diff(current, baseline)
         IN  IF diff = NoRaster
             THEN ChangeRaised("ValueError")
             ELSE LET cells == Cells(diff.shape)
                      positive_change ==
                          [p \in cells |->
                              PositiveChange(diff.at[p], change_threshold)]
                      negative_change ==
                          [p \in cells |->
                              NegativeChange(diff.at[p], change_threshold)]
                      change_mask ==
                          [p \in cells |->
                              positive_change[p] \/ negative_change[p]]
                      values == {diff.at[p] : p \in cells}
                  IN  [raised |-> "none",
                       change_mask |->
                           [shape |-> diff.shape, at |-> change_mask],
                       positive_change |->
                           [shape |-> diff.shape, at |-> positive_change],
                       negative_change |->
                           [shape |-> diff.shape, at |-> negative_change],
                       stats |->
                           [total_changed_pixels |-> Sum(change_mask),
                            new_water_pixels |-> Sum(positive_change),
                            lost_water_pixels |-> Sum(negative_change),
                            max_positive_change |-> MaxOf(values),
                            max_negative_change |-> MinOf(values)]]

\* One call of detect_change: what it was given and what came of it.
ChangeCall(baseline, current, change_threshold, min_change_area) ==
    LET out == detect_change(baseline, current, change_threshold,
                             min_change_area)
    IN  [called |-> TRUE, baseline |-> baseline, current |-> current,
         change_threshold |-> change_threshold,
         min_change_area |-> min_change_area,
         raised |-> out.raised, change_mask |-> out.change_mask,
         positive_change |-> out.positive_change,
         negative_change |-> out.negative_change, stats |-> out.stats]

NoChangeCall ==
    [called |-> FALSE, baseline |-> NoRaster, current |-> NoRaster,
     change_threshold |-> 0, min_change_area |-> 0, raised |-> "none",
     change_mask |-> NoRaster, positive_change |-> NoRaster,
     negative_change |-> NoRaster, stats |-> NoStats]

\* The rasters of the test suite: a constant 5x5 baseline of 0.1 with the
\* pixel [2, 2] of the current raster set to 0.4, and rasters whose shapes
\* differ in a way numpy cannot stretch.
SyntheticBaseline == Constant(<<5, 5>>, 1)
SyntheticCurrent ==
    [SyntheticBaseline EXCEPT !.at = [@ EXCEPT ![<<3, 3>>] = 4]]

TestPairs ==
    { << SyntheticBaseline, SyntheticCurrent >>,
      << SyntheticCurrent, SyntheticBaseline >>,
      << Constant(<<2, 2>>, 1), Constant(<<2, 3>>, 1) >>,
      << Constant(<<5, 5>>, 1), Constant(<<5, 6>>, 1) >> }

Thresholds == -1..MaxThreshold

-----------------------------------------------------------------------------
\* rank_candidates.  A LeakCandidate is its area_m2 and its score (in
\* tenths); id is the object's identity, its place in the caller's list.

MaxCandidates == 3
MaxTopK == 3

Areas == {20, 30, 50}
Scores == {7, 9}
MinAreas == {0, 25, 30}

CandidateLists ==
    UNION { { [i \in 1..n |->
                 [id |-> i, area_m2 |-> f[i][1], score |-> f[i][2]]] :
              f \in [1..n -> Areas \X Scores] } : n \in 0..MaxCandidates }

\* Every candidate passes, whatever its area.
EligibleAlways(c, min_area) == TRUE

\* c.area_m2 >= min_area
Eligible(c, min_area) == c.area_m2 >= min_area

\* [c for c in candidates if c.area_m2 >= min_area]
Filtered(candidates, min_area) ==
    SelectSeq(candidates, LAMBDA c : Eligible(c, min_area))

\* sorted(filtered, key=lambda x: x.area_m2, reverse=True): by area alone,
\* and stable, so candidates of equal area stay in their order of arrival.
SortedByAreaDesc(filtered) ==
    LET n == Len(filtered)
        place(i) ==
            1 + Cardinality({j \in 1..n :
                    \/ filtered[j].area_m2 > filtered[i].area_m2
                    \/ /\ filtered[j].area_m2 = filtered[i].area_m2
                       /\ j < i})
    IN  [k \in 1..n |-> filtered[CHOOSE i \in 1..n : place(i) = k]]

\* ranked[:top_k], a negative top_k counting from the end as Python does.
Slice(ranked, top_k) ==
    LET n == Len(ranked)
        stop == IF top_k >= 0 THEN Min(top_k, n)
                ELSE IF n + top_k > 0 THEN n + top_k ELSE 0
    IN  SubSeq(ranked, 1, stop)

rank_candidates(candidates, min_area, top_k) ==
    Slice(SortedByAreaDesc(Filtered(candidates, min_area)), top_k)

RankCall(candidates, min_area, top_k) ==
    [called |-> TRUE, candidates |-> candidates, min_area |-> min_area,
     top_k |-> top_k, result |-> rank_candidates(candidates, min_area, top_k)]

-----------------------------------------------------------------------------
\* cluster_anomalies.

MaxPixelSize == 5

\* The pixel size of the test suite, 10 m, among the smaller ones.
PixelSizes == (1..MaxPixelSize) \cup {10}

\* The function logs its arguments and raises: its body is three TODO
\* comments and the raise.
cluster_anomalies(masked_ndwi, pixel_size_m) ==
    [raised |-> "NotImplementedError", candidates |-> << >>]

ClusterCall(masked_ndwi, pixel_size_m) ==
    LET out == cluster_anomalies(masked_ndwi, pixel_size_m)
    IN  [called |-> TRUE, masked_ndwi |-> masked_ndwi,
         pixel_size_m |-> pixel_size_m, raised |-> out.raised,
         candidates |-> out.candidates]

NoClusterCall ==
    [called |-> FALSE, masked_ndwi |-> NoRaster, pixel_size_m |-> 0,
     raised |-> "none", candidates |-> << >>]

-----------------------------------------------------------------------------
\* calc_ndwi.  A floating-point number is a fraction n/d with d > 0, an
\* infinity (n its sign) or NaN; rounding of finite results is not modelled.

MaxBand == 2

Fin(n, d) == [kind |-> "fin", n |-> n, d |-> d]
Infinity(sign) == [kind |-> "inf", n |-> sign, d |-> 1]
NaN == [kind |-> "nan", n |-> 0, d |-> 1]
Zero == Fin(0, 1)

Sign(x) == IF x > 0 THEN 1 ELSE IF x < 0 THEN -1 ELSE 0

\* A band's pixel as the caller holds it: an integer, or a real too large
\* in magnitude for float32 (sign its sign).
Pixel(v) == [huge |-> FALSE, v |-> v]
Huge(sign) == [huge |-> TRUE, v |-> sign]
BandValues == {Pixel(v) : v \in -MaxBand..MaxBand} \cup {Huge(1), Huge(-1)}
BandShapes == { <<1, 1>>, <<1, 2>> }

\* astype(np.float32): what does not fit becomes an infinity.
Float32(px) == IF px.huge THEN Infinity(px.v) ELSE Fin(px.v, 1)

\* IEEE addition and subtraction of two numbers that are integers,
\* infinities or NaN.
Plus(a, b) ==
    IF a.kind = "nan" \/ b.kind = "nan" THEN NaN
    ELSE IF a.kind = "inf" /\ b.kind = "inf"
         THEN IF a.n = b.n THEN a ELSE NaN
    ELSE IF a.kind = "inf" THEN a
    ELSE IF b.kind = "inf" THEN b
    ELSE Fin(a.n + b.n, 1)

Negated(a) == IF a.kind = "nan" THEN NaN ELSE [a EXCEPT !.n = -a.n]

Minus(a, b) == Plus(a, Negated(b))

RECURSIVE GCD(_, _)
\* The greatest common divisor, by which a quotient is written in lowest
\* terms: one number has one representation.
GCD(x, y) == IF y = 0 THEN x ELSE GCD(y, x % y)

\* IEEE division of two such numbers: x/0 is an infinity of x's sign, 0/0
\* and inf/inf are NaN, x/inf is 0.
Divide(a, b) ==
    IF a.kind = "nan" \/ b.kind = "nan" THEN NaN
    ELSE IF a.kind = "inf"
         THEN IF b.kind = "inf" THEN NaN
              ELSE Infinity(IF b.n < 0 THEN -a.n ELSE a.n)
    ELSE IF b.kind = "inf" THEN Zero
    ELSE IF b.n = 0
         THEN IF a.n = 0 THEN NaN ELSE Infinity(Sign(a.n))
    ELSE LET g == GCD(Abs(a.n), Abs(b.n))
         IN  Fin((Sign(b.n) * a.n) \div g, Abs(b.n) \div g)

\* denominator != 0: true of NaN and of the infinities.
NonZero(a) == ~(a.kind = "fin" /\ a.n = 0)

\* Every value taken for finite.
IsFiniteAlways(a) == TRUE

\* np.isfinite
IsFinite(a) == a.kind = "fin"

\* The value left as it is.
Unclipped(a) == a

\* np.clip(ndwi, -1, 1); NaN passes through np.clip unchanged.
Clip(a) ==
    IF a.kind = "nan" THEN a
    ELSE IF a.kind = "inf" THEN Fin(a.n, 1)
    ELSE IF a.n > a.d THEN Fin(1, 1)
    ELSE IF a.n < -a.d THEN Fin(-1, 1)
    ELSE a

\* mask=None
NoMask == NoRaster

\* The two bands taken as they come, whatever their shapes.
BandShapeMismatchIgnored(green_band, nir_band) == FALSE

\* if green_band.shape != nir_band.shape
BandShapeMismatch(green_band, nir_band) == green_band.shape # nir_band.shape

\* if mask.shape != green.shape
MaskShapeMismatch(mask, green) == mask.shape # green.shape

\* The pixel kept whatever the mask says.
MaskedIgnored(inMask, value) == value

\* np.where(mask, green, np.nan)
Masked(inMask, value) == IF inMask THEN value ELSE NaN

\* One pixel of the result: green and nir after the cast, inMask whether
\* the mask (if any) keeps the pixel.
NdwiPixel(green_px, nir_px, inMask) ==
    LET green == Masked(inMask, Float32(green_px))
        nir == Masked(inMask, Float32(nir_px))
        denominator == Plus(green, nir)
        ratio == IF NonZero(denominator)
                 THEN Divide(Minus(green, nir), denominator)
                 ELSE Zero
        finite == IF IsFinite(ratio) THEN ratio ELSE Zero
    IN  Clip(finite)

NdwiRaised(kind) == [raised |-> kind, ndwi |-> NoRaster]

\* calc_ndwi.  Past the two shape checks every array has one shape; the
\* elementwise operations are written with numpy's stretching all the same,
\* which is what they do to whatever reaches them.
calc_ndwi(green_band, nir_band, mask) ==
    IF BandShapeMismatch(green_band, nir_band)
    THEN NdwiRaised("ValueError")
    ELSE IF mask # NoMask /\ MaskShapeMismatch(mask, green_band)
    THEN NdwiRaised("ValueError")
    ELSE LET masked == IF mask = NoMask THEN green_band.shape
                       ELSE BroadcastShape(mask.shape, green_band.shape)
             fits == /\ mask = NoMask
                        \/ Broadcastable(mask.shape, green_band.shape)
                     /\ mask = NoMask
                        \/ Broadcastable(mask.shape, nir_band.shape)
                     /\ Broadcastable(masked, nir_band.shape)
             sh == BroadcastShape(masked, nir_band.shape)
         IN  IF ~fits
             THEN NdwiRaised("ValueError")
             ELSE [raised |-> "none",
                   ndwi |->
                       [shape |-> sh,
                        at |-> [p \in Cells(sh) |->
                                   NdwiPixel(Stretched(green_band, p),
                                             Stretched(nir_band, p),
                                             mask = NoMask
                                                 \/ Stretched(mask, p))]]]

NdwiCall(green_band, nir_band, mask) ==
    LET out == calc_ndwi(green_band, nir_band, mask)
    IN  [called |-> TRUE, green_band |-> green_band, nir_band |-> nir_band,
         mask |-> mask, raised |-> out.raised, ndwi |-> out.ndwi]

NoNdwiCall ==
    [called |-> FALSE, green_band |-> NoRaster, nir_band |-> NoRaster,
     mask |-> NoMask, raised |-> "none", ndwi |-> NoRaster]

-----------------------------------------------------------------------------
\* The web application's run_analysis.  Requests are served in threads of
\* their own, so the steps of two runs interleave.

MaxWebRuns == 2
MaxClock == 1

WebRuns == 1..MaxWebRuns
Timestamps == 0..MaxClock

\* datetime.now().strftime('%Y%m%d_%H%M%S'): the clock cut to the second,
\* which the model's clock already is.
Timestamp(now) == now

\* RESULTS_FOLDER / f'analysis_{timestamp}' and
\* RESULTS_FOLDER / f'aquaspot_results_{timestamp}.zip': both are named by
\* the timestamp alone.
OutputKey(timestamp) == timestamp

\* if len(image_files) >= 2
Detects(num_images) == num_images >= 2

NoRequest ==
    [pc |-> "idle", key |-> -1, num_images |-> -1, detected |-> FALSE,
     outcome |-> "none"]
NoRequests == [r \in WebRuns |-> NoRequest]
NoFolders == [k \in Timestamps |-> [users |-> {}, images |-> {}]]
NoArchives == [k \in Timestamps |-> << >>]
-----------------------------------------------------------------------------
\* The ingest command.

\* The process ends with status zero whatever happened.
ExitCodeZero(raised) == 0

\* click: a ClickException ends the process with status 1, a command that
\* returns ends it with status 0.
ExitCode(raised) == IF raised THEN 1 ELSE 0

IngestRun(phase, runs_before, geometry, raised, files, calls) ==
    [phase |-> phase, runs_before |-> runs_before, geometry |-> geometry,
     exit_code |-> IF phase = "exited" THEN ExitCode(raised) ELSE -1,
     error_shown |-> phase = "exited" /\ raised,
     files |-> files, calls |-> calls]

NoIngest == IngestRun("idle", 0, "none", FALSE, 0, 0)
-----------------------------------------------------------------------------
\* calculate_ndwi_from_file and load_sentinel2_bands.  An image file is
\* whether its name holds "TCI" or "visual", whether it exists, whether
\* rasterio can open it, and how many bands it has.

BandNumbers == {1, 3, 8}
BandCounts == {1, 3, 4, 13}

ImageFiles ==
    { [tci |-> t, exists |-> FALSE, opens |-> FALSE, count |-> 0] :
        t \in BOOLEAN }
    \cup { [tci |-> t, exists |-> TRUE, opens |-> FALSE, count |-> 0] :
             t \in BOOLEAN }
    \cup { [tci |-> t, exists |-> TRUE, opens |-> TRUE, count |-> c] :
             t \in BOOLEAN, c \in BandCounts }

\* output_path: none given, one that can be written, one that cannot.
OutputPaths == {"none", "writable", "unwritable"}

\* load_sentinel2_bands: the name of the exception it raises, or "none".
\* A band beyond the file's count raises ValueError inside the try block,
\* whose handler catches rasterio's own error only.
load_sentinel2_bands(image, bands) ==
    IF ~image.exists THEN "FileNotFoundError"
    ELSE IF ~image.opens THEN "ValueError"
    ELSE IF \E band \in bands : band > image.count THEN "ValueError"
    ELSE "none"

\* save_ndwi_geotiff, called only with an output_path.
save_ndwi_geotiff(output_path) ==
    IF output_path = "unwritable" THEN "OSError" ELSE "none"

\* except Exception as e: raise ValueError(...): whatever was raised inside
\* either try block leaves the function as a ValueError.
Wrapped(raised) == IF raised = "none" THEN "none" ELSE "ValueError"

\* The TCI branch reads bands 1, 2 and 3 of the file it opens itself.
TciBranch(image, output_path) ==
    IF ~image.exists \/ ~image.opens THEN "RasterioIOError"
    ELSE IF image.count < 3 THEN "IndexError"
    ELSE save_ndwi_geotiff(output_path)

\* The standard branch: load the two bands, calc_ndwi on them (two bands of
\* one file have one shape, so it does not raise), save.
StandardBranch(image, output_path, green_band, nir_band) ==
    LET loaded == load_sentinel2_bands(image, {green_band, nir_band})
    IN  IF loaded # "none" THEN loaded ELSE save_ndwi_geotiff(output_path)

calculate_ndwi_from_file(image, output_path, green_band, nir_band) ==
    LET inner == IF image.tci
                 THEN TciBranch(image, output_path)
                 ELSE StandardBranch(image, output_path, green_band,
                                     nir_band)
    IN  [raised |-> Wrapped(inner), cause |-> inner]

FromFileCall(image, output_path, green_band, nir_band) ==
    LET out == calculate_ndwi_from_file(image, output_path, green_band,
                                        nir_band)
    IN  [called |-> TRUE, image |-> image, output_path |-> output_path,
         green_band |-> green_band, nir_band |-> nir_band,
         raised |-> out.raised, cause |-> out.cause]

NoFromFile ==
    [called |-> FALSE,
     image |-> [tci |-> FALSE, exists |-> FALSE, opens |-> FALSE, count |-> 0],
     output_path |-> "none", green_band |-> 0, nir_band |-> 0,
     raised |-> "none", cause |-> "none"]
-----------------------------------------------------------------------------
\* The configuration module.  The environment holds strings; a variable
\* that is not set reads as Unset.

Unset == "<unset>"

EnvKeys == {"DATA_DIR", "NDWI_THRESHOLD", "MIN_LEAK_AREA_M2"}

\* The values the test suite sets, beside the variable not being set.
EnvValues(key) ==
    IF key = "DATA_DIR" THEN {Unset, "tmpdir"}
    ELSE IF key = "NDWI_THRESHOLD" THEN {Unset, "0.3"}
    ELSE {Unset, "50"}

\* os.getenv(key, default)
getenv(env, key, default) == IF env[key] = Unset THEN default ELSE env[key]

\* float(text), the thresholds in tenths.
ParseFloat(text) ==
    IF text = "0.2" THEN 2
    ELSE IF text = "0.3" THEN 3
    ELSE IF text = "25" THEN 25
    ELSE 50

\* The default read from the environment as it is when the object is
\* constructed.
FieldDefaultFromEnviron(capturedValue, env, key, default) ==
    ParseFloat(getenv(env, key, default))

\* Field(default=float(os.getenv(...))): the argument was evaluated when
\* the class body ran, and every construction gets that value.
FieldDefault(capturedValue, env, key, default) == capturedValue

\* Field(default_factory=lambda: Path(os.getenv("DATA_DIR", "data"))): the
\* lambda runs at each construction.
FieldDefaultFactory(env, key, default) == getenv(env, key, default)

\* AquaSpotConfig()
AquaSpotConfig(cap, env) ==
    [constructed |-> TRUE,
     data_dir |-> FieldDefaultFactory(env, "DATA_DIR", "data"),
     ndwi_threshold |->
         FieldDefault(cap.ndwi_threshold, env, "NDWI_THRESHOLD", "0.2"),
     min_leak_area_m2 |->
         FieldDefault(cap.min_leak_area_m2, env, "MIN_LEAK_AREA_M2", "25"),
     environ |-> env]

\* The class body of AquaSpotConfig, run once when the module is imported.
ClassBody(env) ==
    [imported |-> TRUE,
     ndwi_threshold |-> ParseFloat(getenv(env, "NDWI_THRESHOLD", "0.2")),
     min_leak_area_m2 |-> ParseFloat(getenv(env, "MIN_LEAK_AREA_M2", "25")),
     environ |-> env]

InitialEnviron == [key \in EnvKeys |-> Unset]
InitialCaptured ==
    [imported |-> FALSE, ndwi_threshold |-> 0, min_leak_area_m2 |-> 0,
     environ |-> InitialEnviron]
NoConfig ==
    [constructed |-> FALSE, data_dir |-> Unset, ndwi_threshold |-> 0,
     min_leak_area_m2 |-> 0, environ |-> InitialEnviron]

NoRankCall == [called |-> FALSE, candidates |-> << >>, min_area |-> 0,
               top_k |-> 0, result |-> << >>]

Init ==
    /\ pc = "idle"
    /\ runs = 0
    /\ max_retries = 0
    /\ max_cloud_cover = 0
    /\ attempt = 0
    /\ items = << >>
    /\ idx = 0
    /\ downloaded_files = << >>
    /\ result = "none"
    /\ disk = EmptyDisk
    /\ sleeps = << >>
    /\ attemptLog = << >>
    /\ fetched = << >>
    /\ lastFetch = NoFetch
    /\ lastSearch = NoSearch
    /\ date_dir = FALSE
    /\ fetches = 0
    /\ searches = 0
    /\ found_any = FALSE
    /\ lastChange = NoChangeCall
    /\ lastRank = NoRankCall
    /\ lastCluster = NoClusterCall
    /\ lastNdwi = NoNdwiCall
    /\ clock = 0
    /\ request = NoRequests
    /\ folders = NoFolders
    /\ archives = NoArchives
    /\ lastIngest = NoIngest
    /\ lastFromFile = NoFromFile
    /\ environ = InitialEnviron
    /\ captured = InitialCaptured
    /\ config = NoConfig

\* A call that fails validation: ValueError before anything is touched.
CallInvalid ==
    /\ pc = "idle"
    /\ runs < MaxRuns
    /\ \E aoiValid, future \in BOOLEAN :
          /\ ~aoiValid \/ future
          /\ result' = "ValueError"
    /\ runs' = runs + 1
    /\ downloaded_files' = << >>
    /\ attemptLog' = << >>
    /\ sleeps' = << >>
    /\ fetched' = << >>
    /\ items' = << >>
    /\ searches' = 0
    /\ found_any' = FALSE
    /\ date_dir' = (date_dir \/ MakesDirs(FALSE))
    /\ UNCHANGED << pc, max_retries, max_cloud_cover, attempt, idx, disk,
                    lastFetch, lastSearch, fetches >>
    /\ UNCHANGED analysisVars
    /\ UNCHANGED appVars

\* A valid call: the directories are made and the retry loop is entered;
\* with max_retries = 0 the loop body never runs and line 109 raises.
CallUpTo(limit) ==
    /\ pc = "idle"
    /\ runs < limit
    /\ runs' = runs + 1
    /\ date_dir' = (date_dir \/ MakesDirs(TRUE))
    /\ searches' = 0
    /\ found_any' = FALSE
    /\ downloaded_files' = << >>
    /\ attemptLog' = << >>
    /\ sleeps' = << >>
    /\ attempt' = 0
    /\ fetched' = << >>
    /\ items' = << >>
    /\ idx' = 0
    /\ \E mr \in 0..MaxRetriesBound, cc \in MainCloudCeilings :
          /\ max_retries' = mr
          /\ max_cloud_cover' = cc
          /\ IF mr = 0
             THEN pc' = "idle" /\ result' = "RuntimeError"
             ELSE pc' = "search" /\ result' = "none"
    /\ UNCHANGED << disk, lastFetch, lastSearch, fetches >>
    /\ UNCHANGED analysisVars
    /\ UNCHANGED appVars

Call == CallUpTo(MaxRuns)

\* The sorted item lists search_sentinel_items can return for scenes among
\* ids, at most n per catalog answer.
SearchResults(ids, n, maxcc) ==
    { call.result : call \in SearchCalls(ids, n, maxcc) }

\* One attempt up to the end of its search, which returns one of found.
\* No item: RuntimeError on the last attempt, which the loop's own handler
\* catches, else continue.
AttemptSearchAmong(found) ==
    /\ pc = "search"
    /\ \E sorted_items \in found :
          /\ items' = sorted_items
          /\ fetched' = << >>
          /\ searches' = searches + 1
          /\ found_any' = (found_any \/ sorted_items # << >>)
          /\ IF sorted_items = << >>
             THEN /\ attemptLog' = Append(attemptLog, Len(downloaded_files))
                  /\ idx' = 0
                  /\ IF attempt = max_retries - 1
                     THEN LET h == ExceptHandler(attempt, max_retries)
                          IN  IF h.retry
                              THEN /\ sleeps' = Append(sleeps,
                                         [after |-> attempt, seconds |-> h.wait])
                                   /\ attempt' = attempt + 1
                                   /\ pc' = "search"
                                   /\ result' = result
                              ELSE /\ result' = "ConnectionError"
                                   /\ pc' = "idle"
                                   /\ UNCHANGED << sleeps, attempt >>
                     ELSE /\ attempt' = attempt + 1
                          /\ pc' = "search"
                          /\ UNCHANGED << sleeps, result >>
             ELSE /\ pc' = "download"
                  /\ idx' = 0
                  /\ UNCHANGED << attempt, attemptLog, sleeps, result >>
    /\ UNCHANGED << runs, max_retries, max_cloud_cover, downloaded_files, disk,
                    lastFetch, lastSearch, date_dir, fetches >>
    /\ UNCHANGED analysisVars
    /\ UNCHANGED appVars

AttemptSearch ==
    AttemptSearchAmong(SearchResults(MainSceneIds, MaxMainItems,
                                     max_cloud_cover))

\* One pass of the download loop; after the last selected item the attempt
\* ends: return when files were obtained, else the next attempt, else the
\* loop is exhausted and line 109 raises RuntimeError.
DownloadItem ==
    /\ pc = "download"
    /\ idx < Selected(items)
    /\ \E outcome \in Outcomes :
          LET item == items[idx + 1]
              r == Fetch(item, idx, disk, outcome)
              files == IF ~r.raised /\ r.path # NoFile
                       THEN Append(downloaded_files, r.path)
                       ELSE downloaded_files
              next == NextIndex(idx, Selected(items), r)
          IN  /\ lastFetch' = FetchCall(item, idx, disk, outcome)
              /\ fetched' = Append(fetched, IF r.raised THEN NoFile ELSE r.path)
              /\ disk' = r.disk
              /\ downloaded_files' = files
              /\ idx' = next
              /\ IF next < Selected(items)
                 THEN UNCHANGED << pc, attempt, attemptLog, result >>
                 ELSE /\ attemptLog' = Append(attemptLog, Len(files))
                      /\ IF AttemptReturns(files)
                         THEN /\ result' = "returned"
                              /\ pc' = "idle"
                              /\ UNCHANGED attempt
                         ELSE IF attempt + 1 < max_retries
                         THEN /\ attempt' = attempt + 1
                              /\ pc' = "search"
                              /\ UNCHANGED result
                         ELSE /\ result' = "RuntimeError"
                              /\ pc' = "idle"
                              /\ UNCHANGED attempt
    /\ UNCHANGED << runs, max_retries, max_cloud_cover, items, sleeps,
                    lastSearch, date_dir, fetches, searches, found_any >>
    /\ UNCHANGED analysisVars
    /\ UNCHANGED appVars

Next == CallInvalid \/ Call \/ AttemptSearch \/ DownloadItem

Spec == Init /\ [][Next]_vars

-----------------------------------------------------------------------------
\* One call of download_sentinel_tiles with catalogs that return up to
\* four scenes, one more than the download loop takes.

LoopSceneIds == {"P1", "P2", "P4", "P6"}

\* The one call.
LoopCall == CallUpTo(1)

\* The search results of the loop, by cloud ceiling.
LoopResults ==
    [maxcc \in MainCloudCeilings |->
        SearchResults(LoopSceneIds, Cardinality(LoopSceneIds), maxcc)]

LoopSearch == AttemptSearchAmong(LoopResults[max_cloud_cover])

NextLoop == LoopCall \/ LoopSearch \/ DownloadItem

\* Every step of the loop is a step of the one thread that runs the call:
\* a search or a fetch that is due is made.
SpecLoop == Init /\ [][NextLoop]_vars /\ WF_vars(NextLoop)

-----------------------------------------------------------------------------
(* The search on its own: every behaviour of the two providers, over the   *)
(* whole scene table.                                                      *)

SearchOnce ==
    /\ ~lastSearch.called
    /\ \E cc \in CloudCeilings :
          \E call \in SearchCalls(SceneIds, MaxItems, cc) : lastSearch' = call
    /\ UNCHANGED << pc, runs, max_retries, max_cloud_cover, attempt, items, idx,
                    downloaded_files, result, disk, sleeps, attemptLog, fetched,
                    lastFetch, date_dir, fetches, searches, found_any >>
    /\ UNCHANGED analysisVars
    /\ UNCHANGED appVars

SpecSearch == Init /\ [][SearchOnce]_vars

(* The fetcher on its own: any sequence of fetches of scenes offering any  *)
(* set of assets, into one directory.                                      *)

AssetNames == {"visual", "rendered_preview", "overview", "B04", "red", "B03"}

FetchOnce ==
    /\ fetches < MaxFetches
    /\ fetches' = fetches + 1
    /\ \E assets \in SUBSET AssetNames, outcome \in Outcomes :
          LET item == [id |-> "X", ts |-> Naive(0), cloud |-> CloudMissing,
                       assets |-> assets]
          IN  /\ lastFetch' = FetchCall(item, 0, disk, outcome)
              /\ disk' = Fetch(item, 0, disk, outcome).disk
    /\ UNCHANGED << pc, runs, max_retries, max_cloud_cover, attempt, items, idx,
                    downloaded_files, result, sleeps, attemptLog, fetched,
                    lastSearch, date_dir, searches, found_any >>
    /\ UNCHANGED analysisVars
    /\ UNCHANGED appVars

SpecFetch == Init /\ [][FetchOnce]_vars

-----------------------------------------------------------------------------
\* detect_change on its own: one call on two small rasters of any shapes, or
\* on the rasters of the test suite.
DetectChangeOnce ==
    /\ ~lastChange.called
    /\ \/ \E b, c \in Rasters(ChangeShapes, NdwiLevels) :
          \E thr \in Thresholds, m \in 1..MaxMinChangeArea :
              lastChange' = ChangeCall(b, c, thr, m)
       \/ \E pair \in TestPairs, thr \in Thresholds :
              lastChange' =
                  ChangeCall(pair[1], pair[2], thr, DefaultMinChangeArea)
    /\ UNCHANGED << pc, runs, max_retries, max_cloud_cover, attempt, items,
                    idx, downloaded_files, result, disk, sleeps, attemptLog,
                    fetched, lastFetch, lastSearch, date_dir, fetches,
                    searches, found_any >>
    /\ UNCHANGED << lastRank, lastCluster, lastNdwi >>
    /\ UNCHANGED appVars

SpecChange == Init /\ [][DetectChangeOnce]_vars

-----------------------------------------------------------------------------
\* rank_candidates on its own: one call on a list of candidates.
RankOnce ==
    /\ ~lastRank.called
    /\ \E cs \in CandidateLists, m \in MinAreas, k \in -1..MaxTopK :
          lastRank' = RankCall(cs, m, k)
    /\ UNCHANGED << pc, runs, max_retries, max_cloud_cover, attempt, items,
                    idx, downloaded_files, result, disk, sleeps, attemptLog,
                    fetched, lastFetch, lastSearch, date_dir, fetches,
                    searches, found_any >>
    /\ UNCHANGED << lastChange, lastCluster, lastNdwi >>
    /\ UNCHANGED appVars

SpecRank == Init /\ [][RankOnce]_vars

-----------------------------------------------------------------------------
\* cluster_anomalies on its own: one call on a small mask of changed pixels.
ClusterOnce ==
    /\ ~lastCluster.called
    /\ \E mask \in Rasters(ChangeShapes, BOOLEAN), size \in PixelSizes :
          lastCluster' = ClusterCall(mask, size)
    /\ UNCHANGED << pc, runs, max_retries, max_cloud_cover, attempt, items,
                    idx, downloaded_files, result, disk, sleeps, attemptLog,
                    fetched, lastFetch, lastSearch, date_dir, fetches,
                    searches, found_any >>
    /\ UNCHANGED << lastChange, lastRank, lastNdwi >>
    /\ UNCHANGED appVars

SpecCluster == Init /\ [][ClusterOnce]_vars

-----------------------------------------------------------------------------
\* calc_ndwi on its own: one call on two small bands, with or without a
\* mask.
CalcNdwiOnce ==
    /\ ~lastNdwi.called
    /\ \E g, n \in Rasters(BandShapes, BandValues) :
          \E mask \in {NoMask} \cup Rasters(BandShapes, BOOLEAN) :
              lastNdwi' = NdwiCall(g, n, mask)
    /\ UNCHANGED << pc, runs, max_retries, max_cloud_cover, attempt, items,
                    idx, downloaded_files, result, disk, sleeps, attemptLog,
                    fetched, lastFetch, lastSearch, date_dir, fetches,
                    searches, found_any >>
    /\ UNCHANGED << lastChange, lastRank, lastCluster >>
    /\ UNCHANGED appVars

SpecNdwi == Init /\ [][CalcNdwiOnce]_vars

-----------------------------------------------------------------------------
\* run_analysis, step by step.

\* The clock moves on.
Tick ==
    /\ clock < MaxClock
    /\ clock' = clock + 1
    /\ UNCHANGED << request, folders, archives >>
    /\ UNCHANGED << ingestVars, analysisVars, cliVars, configVars >>

\* timestamp = now; output_dir.mkdir(exist_ok=True): a directory that is
\* already there is taken as it is.
StartAnalysis(r) ==
    /\ request[r].pc = "idle"
    /\ LET key == OutputKey(Timestamp(clock))
       IN  /\ request' = [request EXCEPT ![r].pc = "ingest", ![r].key = key]
           /\ folders' = [folders EXCEPT ![key].users = @ \cup {r}]
    /\ UNCHANGED << clock, archives >>
    /\ UNCHANGED << ingestVars, analysisVars, cliVars, configVars >>

\* The ingest subprocess: a non-zero return code raises, which run_analysis
\* logs and raises again; on success between one and three images are in
\* the output directory.
IngestStep(r) ==
    /\ request[r].pc = "ingest"
    /\ \/ /\ request' = [request EXCEPT ![r].pc = "failed",
                                         ![r].outcome = "Exception"]
          /\ UNCHANGED folders
       \/ \E k \in 1..DownloadLimit :
             /\ folders' = [folders EXCEPT
                               ![request[r].key].images = @ \cup (1..k)]
             /\ request' = [request EXCEPT ![r].pc = "glob"]
    /\ UNCHANGED << clock, archives >>
    /\ UNCHANGED << ingestVars, analysisVars, cliVars, configVars >>

\* image_files = list(output_dir.glob('**/*.tif')); fewer than two is
\* logged as a warning and the run goes on.
GlobImages(r) ==
    /\ request[r].pc = "glob"
    /\ LET num_images == Cardinality(folders[request[r].key].images)
       IN  request' = [request EXCEPT
                          ![r].num_images = num_images,
                          ![r].pc = IF Detects(num_images) THEN "detect"
                                    ELSE "package"]
    /\ UNCHANGED << clock, folders, archives >>
    /\ UNCHANGED << ingestVars, analysisVars, cliVars, configVars >>

\* The detect subprocess on the first two images; whatever comes of it, a
\* bad return code or an exception, is logged and the run goes on.
DetectStep(r) ==
    /\ request[r].pc = "detect"
    /\ request' = [request EXCEPT ![r].pc = "package", ![r].detected = TRUE]
    /\ UNCHANGED << clock, folders, archives >>
    /\ UNCHANGED << ingestVars, analysisVars, cliVars, configVars >>

\* The summary, the ZIP written afresh (mode 'w') under the run's key, the
\* log line "Analysis completed successfully" and the results page.  A
\* packaging failure is logged and the page is rendered all the same.
PackageResults(r) ==
    /\ request[r].pc = "package"
    /\ \/ archives' = [archives EXCEPT ![request[r].key] = Append(@, r)]
       \/ UNCHANGED archives
    /\ request' = [request EXCEPT ![r].pc = "done",
                                  ![r].outcome = "completed"]
    /\ UNCHANGED << clock, folders >>
    /\ UNCHANGED << ingestVars, analysisVars, cliVars, configVars >>

NextWeb ==
    \/ Tick
    \/ \E r \in WebRuns :
          \/ StartAnalysis(r)
          \/ IngestStep(r)
          \/ GlobImages(r)
          \/ DetectStep(r)
          \/ PackageResults(r)

SpecWeb == Init /\ [][NextWeb]_vars

-----------------------------------------------------------------------------
\* The ingest command, around download_sentinel_tiles.

\* The command starts: it echoes its arguments and enters the try block.
IngestStart ==
    /\ lastIngest.phase \in {"idle", "exited"}
    /\ pc = "idle"
    /\ runs < MaxRuns
    /\ lastIngest' = IngestRun("load", runs, "none", FALSE, 0, 0)
    /\ UNCHANGED << ingestVars, analysisVars, webVars, lastFromFile,
                    configVars >>

\* aoi = load_pipeline_geojson(geojson): a file that cannot be read or is
\* empty raises ValueError, which the command's handler turns into a
\* ClickException.
IngestLoad ==
    /\ lastIngest.phase = "load"
    /\ \/ lastIngest' = IngestRun("exited", lastIngest.runs_before, "failed",
                                   TRUE, 0, 0)
       \/ lastIngest' = IngestRun("download", lastIngest.runs_before,
                                   "loaded", FALSE, 0, 0)
    /\ UNCHANGED << ingestVars, analysisVars, webVars, lastFromFile,
                    configVars >>

\* The command's one call of download_sentinel_tiles.
IngestDownload ==
    /\ lastIngest.phase = "download"
    /\ \/ runs = lastIngest.runs_before /\ (Call \/ CallInvalid)
       \/ AttemptSearch
       \/ DownloadItem

\* The call is over: the files are echoed, or the exception is logged,
\* echoed and raised as a ClickException.
IngestExit ==
    /\ lastIngest.phase = "download"
    /\ runs > lastIngest.runs_before
    /\ pc = "idle"
    /\ lastIngest' = IngestRun("exited", lastIngest.runs_before, "loaded",
                               result # "returned", Len(downloaded_files),
                               runs - lastIngest.runs_before)
    /\ UNCHANGED << ingestVars, analysisVars, webVars, lastFromFile,
                    configVars >>

NextCli == IngestStart \/ IngestLoad \/ IngestDownload \/ IngestExit

SpecCli == Init /\ [][NextCli]_vars

-----------------------------------------------------------------------------
\* calculate_ndwi_from_file on its own: one call on one image file.
FromFileOnce ==
    /\ ~lastFromFile.called
    /\ \E image \in ImageFiles, out \in OutputPaths :
          \E g, n \in BandNumbers :
              lastFromFile' = FromFileCall(image, out, g, n)
    /\ UNCHANGED << ingestVars, analysisVars, webVars, lastIngest,
                    configVars >>

SpecFromFile == Init /\ [][FromFileOnce]_vars

-----------------------------------------------------------------------------
\* The configuration: the environment changes, the module is imported
\* once, configurations are constructed.

\* monkeypatch.setenv / delenv, or the shell before the process starts.
SetEnv ==
    /\ \E key \in EnvKeys :
          \E value \in EnvValues(key) :
              /\ environ[key] # value
              /\ environ' = [environ EXCEPT ![key] = value]
    /\ UNCHANGED << captured, config >>
    /\ UNCHANGED << ingestVars, analysisVars, webVars, cliVars >>

\* import aquaspot.config: the class body runs, then the module makes its
\* global config.
ImportConfig ==
    /\ ~captured.imported
    /\ captured' = ClassBody(environ)
    /\ config' = AquaSpotConfig(ClassBody(environ), environ)
    /\ UNCHANGED environ
    /\ UNCHANGED << ingestVars, analysisVars, webVars, cliVars >>

\* config = AquaSpotConfig() anywhere after the import.
ConstructConfig ==
    /\ captured.imported
    /\ config' = AquaSpotConfig(captured, environ)
    /\ UNCHANGED << environ, captured >>
    /\ UNCHANGED << ingestVars, analysisVars, webVars, cliVars >>

NextConfig == SetEnv \/ ImportConfig \/ ConstructConfig

SpecConfig == Init /\ [][NextConfig]_vars

-----------------------------------------------------------------------------
(* Properties *)

Failed == {"ConnectionError", "RuntimeError"}

\* C1: a valid call with max_retries >= 1 returns as soon as an attempt has
\* obtained a file (no attempt follows one that obtained files), it raises
\* only after max_retries attempts that each obtained no file, and the list
\* it returns is never empty.
C1_ReturnsOnFirstFiles ==
    /\ result = "returned" =>
          /\ downloaded_files # << >>
          /\ attemptLog # << >>
          /\ attemptLog[Len(attemptLog)] > 0
    /\ (result \in Failed /\ max_retries >= 1) =>
          /\ Len(attemptLog) = max_retries
          /\ \A k \in 1..Len(attemptLog) : attemptLog[k] = 0
    /\ \A k \in 1..Len(attemptLog) :
          attemptLog[k] > 0 =>
              k = Len(attemptLog) /\ result = "returned" /\ pc = "idle"

\* C1 witness: the call returned on its second attempt, after a first
\* attempt that obtained nothing.
C1_Witness ==
    /\ result = "returned"
    /\ Len(attemptLog) = 2
    /\ attemptLog[1] = 0
    /\ attemptLog[2] > 0

\* C2: whenever attempt number a (counted from 0) is running, a backoff
\* waits have been made, the k-th of them after attempt k-1 and 2^(k-1)
\* seconds long.
C2_BackoffBetweenAttempts ==
    pc \in {"search", "download"} =>
        /\ Len(sleeps) = attempt
        /\ \A k \in 1..Len(sleeps) :
              sleeps[k] = [after |-> k - 1, seconds |-> Pow2(k - 1)]

\* C3: a path the fetcher returns never names a partial file.
C3_NoPartialFileReturned ==
    (lastFetch.called /\ lastFetch.path # NoFile) =>
        (lastFetch.path \in DOMAIN disk /\ disk[lastFetch.path].complete)

\* C4: a fetch of a scene/asset whose download already finished issues no
\* request, leaves the finished file as it was and returns its path.
C4_SecondFetchReusesFile ==
    (lastFetch.called /\ lastFetch.prior) =>
        /\ ~lastFetch.requested
        /\ lastFetch.priorKept
        /\ lastFetch.priorReturned

\* C5: no fetch ends in an exception; a fetch that finds no usable asset or
\* whose download fails yields the absent result; when an attempt's download
\* loop is over every selected scene has been fetched, and the list holds
\* exactly the paths of the fetches that yielded one, in order.
C5_FailureIsAbsentAndSiblingsRun ==
    /\ lastFetch.called =>
          /\ ~lastFetch.raised
          /\ (lastFetch.asset = NoAsset
                \/ lastFetch.outcome \in {"http_error", "open_error", "interrupted"})
               => lastFetch.path = NoFile
    /\ pc # "download" => Len(fetched) = Selected(items)
    /\ downloaded_files = SelectSeq(fetched, LAMBDA f : f # NoFile)

\* C5 witness: an attempt whose first fetch failed in the download and whose
\* second fetch succeeded returned the one file.
C5_Witness ==
    /\ result = "returned"
    /\ Len(fetched) = 2
    /\ fetched[1] = NoFile
    /\ fetched[2] # NoFile
    /\ downloaded_files = << fetched[2] >>
    /\ "visual" \in items[1].assets

PrimaryGaveNothing(c) == ~c.primary.ok \/ c.primary.items = << >>

\* C6 as stated: the secondary is queried exactly when the primary raised or
\* returned no item, and an empty result means both were tried and each
\* raised or returned no item.
C6_EmptyOnlyWhenBothGaveNothing ==
    lastSearch.called =>
        /\ lastSearch.secondaryQueried <=> PrimaryGaveNothing(lastSearch)
        /\ lastSearch.result = << >> =>
              /\ lastSearch.secondaryQueried
              /\ PrimaryGaveNothing(lastSearch)
              /\ ~lastSearch.secondary.ok \/ lastSearch.secondary.items = << >>

TooCloudy(item, maxcc) == item.cloud.kind = "num" /\ item.cloud.v > maxcc

\* C6 as amended: the secondary is queried exactly when the primary raised or
\* returned no item, and an empty result means both were tried, the primary
\* raised or returned no item, and the secondary raised or returned no item
\* within the cloud-cover ceiling.
C6_EmptyOnlyWhenBothGaveNothingSuitable ==
    lastSearch.called =>
        /\ lastSearch.secondaryQueried <=> PrimaryGaveNothing(lastSearch)
        /\ lastSearch.result = << >> =>
              /\ lastSearch.secondaryQueried
              /\ PrimaryGaveNothing(lastSearch)
              /\ \/ ~lastSearch.secondary.ok
                 \/ \A i \in 1..Len(lastSearch.secondary.items) :
                       TooCloudy(lastSearch.secondary.items[i], lastSearch.maxcc)

\* C6 witness: the primary returned nothing, the secondary returned items
\* that are all above the ceiling, and the result is empty.
C6_Witness ==
    /\ lastSearch.called
    /\ lastSearch.primary.ok
    /\ lastSearch.secondaryQueried
    /\ lastSearch.secondary.ok
    /\ lastSearch.secondary.items # << >>
    /\ lastSearch.result = << >>

InSeq(x, seq) == \E i \in 1..Len(seq) : seq[i] = x

\* C7: on the secondary path an item whose cloud cover is missing,
\* unreadable or not above max_cloud_cover is in the result, and an item
\* whose known cloud cover is above max_cloud_cover is not.
C7_CloudFilterKeepsUnknown ==
    (lastSearch.called /\ lastSearch.secondaryQueried /\ lastSearch.secondary.ok) =>
        \A i \in 1..Len(lastSearch.secondary.items) :
            LET item == lastSearch.secondary.items[i]
            IN  InSeq(item, lastSearch.result) <=> ~TooCloudy(item, lastSearch.maxcc)

\* C7 witness: the secondary returned an item without cloud cover and an item
\* above the ceiling; the first is in the result and the second is not.
C7_Witness ==
    /\ lastSearch.called
    /\ lastSearch.secondaryQueried
    /\ \E i, j \in 1..Len(lastSearch.secondary.items) :
          /\ lastSearch.secondary.items[i].cloud.kind = "missing"
          /\ InSeq(lastSearch.secondary.items[i], lastSearch.result)
          /\ TooCloudy(lastSearch.secondary.items[j], lastSearch.maxcc)
          /\ ~InSeq(lastSearch.secondary.items[j], lastSearch.result)

Dated(item) == item.ts.kind # "bad"

\* C8: the result is ordered by non-decreasing absolute time distance to the
\* target date, and every item without a parseable timestamp comes after
\* every item with one.
C8_SortedByTimeDistance ==
    lastSearch.called =>
        \A i, j \in 1..Len(lastSearch.result) :
            i < j =>
                LET a == lastSearch.result[i]
                    b == lastSearch.result[j]
                IN  /\ (Dated(a) /\ Dated(b)) => Abs(a.ts.h) <= Abs(b.ts.h)
                    /\ ~(~Dated(a) /\ Dated(b))

Bands == {"B03", "B04", "red"}

Listed == {"visual", "rendered_preview", "overview", "B04", "red"}

C10_FileKeyedByScene ==
    /\ (lastFetch.called /\ lastFetch.existed) =>
          disk[lastFetch.path].owner = lastFetch.scene
    /\ \A f, g \in DOMAIN disk :
          (disk[f].owner = disk[g].owner /\ f.asset = g.asset) => f = g

-----------------------------------------------------------------------------
\* C11: a call of download_sentinel_tiles with an invalid AOI or a future
\* date raises ValueError at once: the step that raises it makes no attempt,
\* queries no catalog, sleeps for no retry, and leaves the directories and
\* the files on disk exactly as they were.
C11_InvalidCallTouchesNothing ==
    [][ (runs' = runs + 1 /\ result' = "ValueError")
            => /\ pc' = "idle"
               /\ searches' = 0
               /\ attemptLog' = << >>
               /\ sleeps' = << >>
               /\ fetched' = << >>
               /\ date_dir' = date_dir
               /\ disk' = disk
               /\ lastFetch' = lastFetch ]_vars

\* C11 witness: the first call ever made was invalid, and afterwards there is
\* still no directory and no file.
C11_Witness ==
    /\ runs = 1
    /\ result = "ValueError"
    /\ ~date_dir
    /\ disk = EmptyDisk
    /\ searches = 0

\* C12: a call whose every attempt (max_retries >= 1) found no imagery fails
\* with RuntimeError, the documented error for "no suitable imagery found".
C12_NoImageryIsRuntimeError ==
    (pc = "idle" /\ result \in Failed /\ max_retries >= 1 /\ ~found_any)
        => result = "RuntimeError"

-----------------------------------------------------------------------------
\* C13: detect_change given a baseline and a current raster of different
\* shapes raises its shape error and returns neither a mask nor statistics,
\* also when numpy could have stretched one shape to the other.
C13_ShapeMismatchRaises ==
    (lastChange.called /\ lastChange.baseline.shape # lastChange.current.shape)
        => /\ lastChange.raised = "ValueError"
           /\ lastChange.change_mask = NoRaster
           /\ lastChange.stats = NoStats

\* C13 witness: a 1x2 baseline against a 2x2 current raster, which numpy
\* would broadcast, was refused.
C13_Witness ==
    /\ lastChange.called
    /\ lastChange.baseline.shape = <<1, 2>>
    /\ lastChange.current.shape = <<2, 2>>
    /\ lastChange.raised = "ValueError"

\* The cells of a boolean raster that are set.
SetCells(raster) == {p \in DOMAIN raster.at : raster.at[p]}

\* current - baseline at cell p of a call on same-shape rasters.
Difference(call, p) == call.current.at[p] - call.baseline.at[p]

\* Exactly one cell of the current raster differs from a constant baseline,
\* and it is raised by more than the threshold.
SinglePixelRaised(call, q) ==
    /\ call.change_threshold >= 0
    /\ \A p \in Cells(call.baseline.shape) :
          call.baseline.at[p] = call.baseline.at[q]
    /\ \A p \in Cells(call.baseline.shape) \ {q} : Difference(call, p) = 0
    /\ Difference(call, q) > call.change_threshold

C15_SwapExchangesGainedAndLost ==
    (lastChange.called /\ lastChange.raised = "none")
        => LET swapped == detect_change(lastChange.current,
                                        lastChange.baseline,
                                        lastChange.change_threshold,
                                        lastChange.min_change_area)
           IN  /\ swapped.raised = "none"
               /\ swapped.stats.new_water_pixels =
                      lastChange.stats.lost_water_pixels
               /\ swapped.stats.lost_water_pixels =
                      lastChange.stats.new_water_pixels
               /\ swapped.stats.total_changed_pixels =
                      lastChange.stats.total_changed_pixels
               /\ swapped.change_mask = lastChange.change_mask

\* C15 witness: a call that found two gained pixels and one lost pixel, one
\* of its differences being exactly the threshold.
C15_Witness ==
    /\ lastChange.called
    /\ lastChange.raised = "none"
    /\ lastChange.change_threshold = 1
    /\ lastChange.stats.new_water_pixels = 2
    /\ lastChange.stats.lost_water_pixels = 1
    /\ \E p \in Cells(lastChange.baseline.shape) :
          Difference(lastChange, p) = -1

\* Two cells that touch, by an edge or by a corner.
Adjacent(p, q) ==
    p # q /\ Abs(p[1] - q[1]) <= 1 /\ Abs(p[2] - q[2]) <= 1

RECURSIVE Group(_, _)
\* The connected group of cells of S grown from the cells F.
Group(F, S) ==
    LET N == F \cup {q \in S : \E p \in F : Adjacent(p, q)}
    IN  IF N = F THEN F ELSE Group(N, S)

\* C16: with min_change_area = m the mask holds only pixels of connected
\* groups of at least m changed pixels, and the total counts only those.
C16_SmallGroupsFilteredOut ==
    (lastChange.called /\ lastChange.raised = "none")
        => LET call == lastChange
               cells == Cells(call.baseline.shape)
               changed == {p \in cells :
                              Abs(Difference(call, p)) > call.change_threshold}
               kept == {p \in changed :
                           Cardinality(Group({p}, changed))
                               >= call.min_change_area}
           IN  /\ SetCells(call.change_mask) \subseteq kept
               /\ call.stats.total_changed_pixels <= Cardinality(kept)

-----------------------------------------------------------------------------
Members(seq) == {seq[i] : i \in 1..Len(seq)}

\* The candidates of the input that are at least min_area large.
EligibleInput(call) ==
    {c \in Members(call.candidates) : c.area_m2 >= call.min_area}

\* C17: with top_k >= 0, rank_candidates returns candidates of the input of
\* area at least min_area, each once, at most top_k of them, in
\* non-increasing order of area, and no eligible candidate left out is
\* larger than one returned.
C17_RankFiltersSortsAndCuts ==
    (lastRank.called /\ lastRank.top_k >= 0)
        => LET res == lastRank.result
           IN  /\ Members(res) \subseteq EligibleInput(lastRank)
               /\ Cardinality(Members(res)) = Len(res)
               /\ Len(res) <= lastRank.top_k
               /\ \A i, j \in 1..Len(res) :
                      i < j => res[i].area_m2 >= res[j].area_m2
               /\ \A c \in EligibleInput(lastRank) \ Members(res) :
                      \A r \in Members(res) : c.area_m2 <= r.area_m2

\* C17 witness: three candidates of areas 30, 20 and 50 ranked with
\* min_area 25 and top_k 1 gave the candidate of area 50 alone, the eligible
\* one of area 30 being cut.
C17_Witness ==
    /\ lastRank.called
    /\ Len(lastRank.candidates) = 3
    /\ lastRank.candidates[1].area_m2 = 30
    /\ lastRank.candidates[2].area_m2 = 20
    /\ lastRank.candidates[3].area_m2 = 50
    /\ lastRank.min_area = 25
    /\ lastRank.top_k = 1
    /\ Len(lastRank.result) = 1
    /\ lastRank.result[1].id = 3

\* C18: candidates of equal area come out by score descending, and when
\* the cut falls inside a group of equal area the ones kept have the
\* highest scores.
C18_TiesByScoreDescending ==
    (lastRank.called /\ lastRank.top_k >= 0)
        => LET res == lastRank.result
           IN  /\ \A i, j \in 1..Len(res) :
                      (i < j /\ res[i].area_m2 = res[j].area_m2)
                          => res[i].score >= res[j].score
               /\ \A c \in EligibleInput(lastRank) \ Members(res) :
                      \A r \in Members(res) :
                          c.area_m2 = r.area_m2 => c.score <= r.score

-----------------------------------------------------------------------------
\* The connected components of a set of cells.
Components(S) == {Group({p}, S) : p \in S}

\* C19: cluster_anomalies returns one candidate per connected component of
\* the mask's pixels, of area the component's pixel count times
\* pixel_size_m squared; a mask of one pixel gives one candidate of area
\* pixel_size_m squared.
C19_OneCandidatePerComponent ==
    lastCluster.called
        => LET comps == Components(SetCells(lastCluster.masked_ndwi))
               cands == lastCluster.candidates
               unit == lastCluster.pixel_size_m * lastCluster.pixel_size_m
           IN  /\ lastCluster.raised = "none"
               /\ Len(cands) = Cardinality(comps)
               /\ \A g \in comps :
                      Cardinality({i \in 1..Len(cands) :
                                      cands[i].area_m2 = Cardinality(g) * unit})
                          >= Cardinality({h \in comps :
                                             Cardinality(h) = Cardinality(g)})

-----------------------------------------------------------------------------
\* C20: for green and NIR bands of one shape, whatever their pixel values
\* (negative ones included) and with or without a mask of that shape, every
\* pixel of the calc_ndwi output is a finite number between -1 and 1.
C20_NdwiInRangeAndFinite ==
    (lastNdwi.called
        /\ lastNdwi.green_band.shape = lastNdwi.nir_band.shape
        /\ (lastNdwi.mask = NoMask
               \/ lastNdwi.mask.shape = lastNdwi.green_band.shape))
        => /\ lastNdwi.raised = "none"
           /\ lastNdwi.ndwi.shape = lastNdwi.green_band.shape
           /\ \A p \in Cells(lastNdwi.ndwi.shape) :
                  LET v == lastNdwi.ndwi.at[p]
                  IN  /\ v.kind = "fin"
                      /\ v.d > 0
                      /\ -v.d <= v.n
                      /\ v.n <= v.d

\* C20 witness: a pixel with green 2 and NIR -1, whose ratio 3/1 is beyond
\* the range, came out as 1, beside a pixel with green + NIR = 0.
C20_Witness ==
    /\ lastNdwi.called
    /\ lastNdwi.mask = NoMask
    /\ lastNdwi.green_band.shape = <<1, 2>>
    /\ lastNdwi.nir_band.shape = <<1, 2>>
    /\ lastNdwi.green_band.at[<<1, 1>>] = Pixel(2)
    /\ lastNdwi.nir_band.at[<<1, 1>>] = Pixel(-1)
    /\ lastNdwi.green_band.at[<<1, 2>>] = Pixel(1)
    /\ lastNdwi.nir_band.at[<<1, 2>>] = Pixel(-1)
    /\ lastNdwi.raised = "none"
    /\ lastNdwi.ndwi.at[<<1, 1>>] = Fin(1, 1)
    /\ lastNdwi.ndwi.at[<<1, 2>>] = Zero

-----------------------------------------------------------------------------
\* A band's pixel that is an ordinary number, and the number.
Ordinary(px) == ~px.huge

\* C21: calc_ndwi gives exactly 0, never NaN, at every pixel where
\* green + nir is 0, and at every pixel when green equals nir everywhere,
\* pixels where both are 0 included.
C21_ZeroDenominatorAndEqualBandsGiveZero ==
    (lastNdwi.called /\ lastNdwi.raised = "none")
        => LET g == lastNdwi.green_band
               n == lastNdwi.nir_band
               cells == Cells(lastNdwi.ndwi.shape)
           IN  /\ \A p \in cells :
                      (/\ Ordinary(g.at[p])
                       /\ Ordinary(n.at[p])
                       /\ g.at[p].v + n.at[p].v = 0)
                          => lastNdwi.ndwi.at[p] = Zero
               /\ g = n => \A p \in cells : lastNdwi.ndwi.at[p] = Zero

\* C21 witness: green and NIR both (0, 2), no mask: the pixel 0/0 and the
\* pixel 0/4 both came out 0; and elsewhere green 1 against NIR -1 did.
C21_Witness ==
    /\ lastNdwi.called
    /\ lastNdwi.raised = "none"
    /\ lastNdwi.mask = NoMask
    /\ lastNdwi.green_band = lastNdwi.nir_band
    /\ lastNdwi.green_band.shape = <<1, 2>>
    /\ lastNdwi.green_band.at[<<1, 1>>] = Pixel(0)
    /\ lastNdwi.green_band.at[<<1, 2>>] = Pixel(2)
    /\ lastNdwi.ndwi.at[<<1, 1>>] = Zero
    /\ lastNdwi.ndwi.at[<<1, 2>>] = Zero

\* C22: calc_ndwi raises its shape error, and returns nothing, whenever
\* the two bands differ in shape or a supplied mask differs in shape from
\* the bands.
C22_BandOrMaskShapeMismatchRaises ==
    (lastNdwi.called
        /\ \/ lastNdwi.green_band.shape # lastNdwi.nir_band.shape
           \/ /\ lastNdwi.mask # NoMask
              /\ lastNdwi.mask.shape # lastNdwi.green_band.shape)
        => /\ lastNdwi.raised = "ValueError"
           /\ lastNdwi.ndwi = NoRaster

\* C22 witness: bands of one shape with a 1x1 mask, which numpy would have
\* stretched over the 1x2 bands, were refused.
C22_Witness ==
    /\ lastNdwi.called
    /\ lastNdwi.green_band.shape = <<1, 2>>
    /\ lastNdwi.nir_band.shape = <<1, 2>>
    /\ lastNdwi.mask # NoMask
    /\ lastNdwi.mask.shape = <<1, 1>>
    /\ lastNdwi.raised = "ValueError"

\* C23: with a mask, every out-of-mask pixel of the output is exactly 0 and
\* every in-mask pixel is what the call without a mask gives there.
C23_MaskZeroesOutsideAndKeepsInside ==
    (lastNdwi.called /\ lastNdwi.raised = "none" /\ lastNdwi.mask # NoMask)
        => LET plain == calc_ndwi(lastNdwi.green_band, lastNdwi.nir_band,
                                  NoMask)
           IN  /\ plain.raised = "none"
               /\ plain.ndwi.shape = lastNdwi.ndwi.shape
               /\ \A p \in Cells(lastNdwi.ndwi.shape) :
                      IF lastNdwi.mask.at[p]
                      THEN lastNdwi.ndwi.at[p] = plain.ndwi.at[p]
                      ELSE lastNdwi.ndwi.at[p] = Zero

\* C23 witness: green (2, 2) and NIR (-1, 2) under a mask that keeps the
\* second pixel only: the first pixel, whose index unmasked is 1, and the
\* second, whose index is 0, both came out 0.
C23_Witness ==
    /\ lastNdwi.called
    /\ lastNdwi.raised = "none"
    /\ lastNdwi.mask # NoMask
    /\ lastNdwi.green_band.shape = <<1, 2>>
    /\ lastNdwi.green_band.at[<<1, 1>>] = Pixel(2)
    /\ lastNdwi.nir_band.at[<<1, 1>>] = Pixel(-1)
    /\ lastNdwi.green_band.at[<<1, 2>>] = Pixel(2)
    /\ lastNdwi.nir_band.at[<<1, 2>>] = Pixel(2)
    /\ ~lastNdwi.mask.at[<<1, 1>>]
    /\ lastNdwi.mask.at[<<1, 2>>]
    /\ lastNdwi.ndwi.at[<<1, 1>>] = Zero
    /\ lastNdwi.ndwi.at[<<1, 2>>] = Zero

-----------------------------------------------------------------------------
\* C24: a run whose ingestion left fewer than two images stops there with
\* a failure: it runs no change detection and is not reported as completed.
C24_FewerThanTwoImagesStops ==
    \A r \in WebRuns :
        (request[r].num_images >= 0 /\ request[r].num_images < 2)
            => /\ ~request[r].detected
               /\ request[r].pc = "failed"
               /\ request[r].outcome # "completed"

-----------------------------------------------------------------------------
\* C25: the ingest command loads the geometry before any imagery search;
\* it ends with a non-zero status and an error message whenever loading the
\* geometry or the download failed, without any search in the first case;
\* and it ends with status zero only with at least one file downloaded.
C25_IngestExitStatus ==
    /\ lastIngest.phase = "load"
          => pc = "idle" /\ runs = lastIngest.runs_before
    /\ (lastIngest.phase = "exited" /\ lastIngest.geometry = "failed")
          => /\ lastIngest.exit_code # 0
             /\ lastIngest.error_shown
             /\ lastIngest.calls = 0
             /\ runs = lastIngest.runs_before
    /\ (lastIngest.phase = "exited" /\ lastIngest.geometry = "loaded"
            /\ result # "returned")
          => lastIngest.exit_code # 0 /\ lastIngest.error_shown
    /\ (lastIngest.phase = "exited" /\ lastIngest.exit_code = 0)
          => /\ lastIngest.geometry = "loaded"
             /\ lastIngest.calls = 1
             /\ result = "returned"
             /\ lastIngest.files >= 1
             /\ ~lastIngest.error_shown

\* C25 witness: a first command ended with status zero and a file, and a
\* second one, whose geometry failed to load, with status one and no call.
C25_Witness ==
    /\ lastIngest.phase = "exited"
    /\ lastIngest.geometry = "failed"
    /\ lastIngest.exit_code = 1
    /\ lastIngest.runs_before = 1
    /\ runs = 1
    /\ result = "returned"
    /\ Len(downloaded_files) >= 1

-----------------------------------------------------------------------------
\* C26: calculate_ndwi_from_file on a path that does not exist, whose name
\* holds neither "TCI" nor "visual", fails with FileNotFoundError.
C26_MissingFileIsFileNotFoundError ==
    (lastFromFile.called
        /\ ~lastFromFile.image.exists
        /\ ~lastFromFile.image.tci)
        => lastFromFile.raised = "FileNotFoundError"

-----------------------------------------------------------------------------
\* C27: an AquaSpotConfig takes its data directory from the environment
\* as it is when the object is constructed, and its ndwi_threshold and
\* min_leak_area_m2 from the environment as it was when the module was
\* imported (0.2 and 25 when they were not set then), whatever they are
\* set to now.
C27_ThresholdsCapturedAtImport ==
    config.constructed
        => /\ captured.imported
           /\ config.data_dir = getenv(config.environ, "DATA_DIR", "data")
           /\ config.ndwi_threshold =
                  ParseFloat(getenv(captured.environ, "NDWI_THRESHOLD",
                                    "0.2"))
           /\ config.min_leak_area_m2 =
                  ParseFloat(getenv(captured.environ, "MIN_LEAK_AREA_M2",
                                    "25"))
           /\ captured.environ["NDWI_THRESHOLD"] = Unset
                  => config.ndwi_threshold = 2
           /\ captured.environ["MIN_LEAK_AREA_M2"] = Unset
                  => config.min_leak_area_m2 = 25

\* C27 witness: the test's case.  Imported with nothing set, then
\* DATA_DIR, NDWI_THRESHOLD = 0.3 and MIN_LEAK_AREA_M2 = 50 set, then a
\* new config: its data directory is the new one, its threshold 0.2 and
\* its minimum area 25.
C27_Witness ==
    /\ config.constructed
    /\ captured.environ = InitialEnviron
    /\ config.environ["DATA_DIR"] = "tmpdir"
    /\ config.environ["NDWI_THRESHOLD"] = "0.3"
    /\ config.environ["MIN_LEAK_AREA_M2"] = "50"
    /\ config.data_dir = "tmpdir"
    /\ config.ndwi_threshold = 2
    /\ config.min_leak_area_m2 = 25

-----------------------------------------------------------------------------
\* C28: every web analysis run has an output directory and a results
\* archive of its own: no directory is used by two runs and no archive is
\* written by two runs, also when two runs start within one clock second.
C28_RunsShareNothing ==
    \A k \in Timestamps :
        /\ Cardinality(folders[k].users) <= 1
        /\ Len(archives[k]) <= 1

\* C29: for a threshold >= 0 and same-shape inputs no pixel is both gained
\* and lost, so the total is the sum of the gained and lost counts; and
\* identical baseline and current give no changed pixel.
C29_GainedAndLostDisjoint ==
    (lastChange.called
        /\ lastChange.baseline.shape = lastChange.current.shape
        /\ lastChange.change_threshold >= 0)
        => /\ lastChange.raised = "none"
           /\ SetCells(lastChange.positive_change)
                  \cap SetCells(lastChange.negative_change) = {}
           /\ lastChange.stats.total_changed_pixels =
                  lastChange.stats.new_water_pixels
                      + lastChange.stats.lost_water_pixels
           /\ lastChange.baseline = lastChange.current
                  => /\ lastChange.stats.total_changed_pixels = 0
                     /\ SetCells(lastChange.change_mask) = {}

\* C29 witness: a 2x2 call with threshold 0 that found one gained and one
\* lost pixel beside an unchanged one, total two.
C29_Witness ==
    /\ lastChange.called
    /\ lastChange.raised = "none"
    /\ lastChange.baseline.shape = <<2, 2>>
    /\ lastChange.change_threshold = 0
    /\ lastChange.stats.new_water_pixels = 1
    /\ lastChange.stats.lost_water_pixels = 1
    /\ lastChange.stats.total_changed_pixels = 2
    /\ \E p \in Cells(<<2, 2>>) : Difference(lastChange, p) = 0

-----------------------------------------------------------------------------
\* What holds in every state of one call of download_sentinel_tiles: the
\* searches made so far, the fetches of the current attempt and the scene
\* each of them took.
LoopBounded ==
    /\ searches <= max_retries
    /\ Len(fetched) <= DownloadLimit
    /\ Len(fetched) <= Len(items)
    /\ fetched # << >> =>
          /\ lastFetch.index = Len(fetched) - 1
          /\ lastFetch.scene = items[Len(fetched)].id
    /\ (runs > 0 /\ max_retries = 0) =>
          /\ pc = "idle"
          /\ result = "RuntimeError"
          /\ searches = 0

\* C30: whatever the catalogs answer and however the downloads end, a call
\* of download_sentinel_tiles makes at most max_retries searches and, after
\* each search, at most three fetches, the k-th of them of the k-th scene of
\* the sorted search result; with max_retries = 0 it raises without a search;
\* and a call that has started always comes to its end, returning or raising.
C30_TerminatesWithinRetries ==
    /\ []LoopBounded
    /\ (pc # "idle") ~> (pc = "idle" /\ result \in {"returned"} \cup Failed)

\* C30 witness: a call with max_retries = 2 that has ended after two
\* searches, the second of which found four scenes, of which the first
\* three were fetched and the fourth was not.
C30_Witness ==
    /\ pc = "idle"
    /\ runs > 0
    /\ max_retries = 2
    /\ searches = 2
    /\ Len(items) = 4
    /\ Len(fetched) = 3
    /\ lastFetch.scene = items[3].id
    /\ result \in {"returned"} \cup Failed

====
